---- MODULE Spec2Model ----
(***************************************************************************)
(* Model of openfisca_yuisekin/variables/taxes.py: the three tax rules     *)
(* 所得税 (shotokuzei, income tax), 社会保険料 (shakaihokenryo, social      *)
(* security contribution) and 固定資産税 (koteishisanzei, property tax),    *)
(* as formulas the host engine evaluates for an entity and a period.       *)
(*                                                                         *)
(* TLA+ identifiers are ASCII, so the source's names are transliterated:   *)
(*   所得 shotoku            所得税率 shotokuzeiritsu     税金 zeikin        *)
(*   課税床面積 kazeiyukamenseki   居住状況 kyojujokyo    借家 shakuya       *)
(*   minimal_金額 minimal_kingaku  tax_金額 tax_kingaku                     *)
(*   対象人物 taishojinbutsu  対象世帯 taishosetai  対象期間 taishokikan      *)
(*                                                                         *)
(* Numbers: the float values are modelled in exact fixed-point arithmetic. *)
(* Incomes, floor areas, thresholds and minimal amounts are integers; a    *)
(* rate is an integer number of hundredths (0.01 is 1, 0.1 is 10); every   *)
(* formula result is therefore an integer number of hundredths             *)
(* (200.0 is 200 * Hundredths).                                            *)
(***************************************************************************)
EXTENDS Integers, Sequences, FiniteSets

VARIABLES
    shotoku,            \* 所得: [Persons -> [MonthPeriods -> Int]]
    kazeiyukamenseki,   \* 課税床面積: [Households -> [MonthPeriods -> Int]]
    kyojujokyo,         \* 居住状況: [Households -> [MonthPeriods -> label]]
    zeikin,             \* parameters(period).税金: the parameter tree
    unresolved,         \* the names the host engine fails to resolve
    calculated          \* the results the host engine has obtained so far

vars == <<shotoku, kazeiyukamenseki, kyojujokyo, zeikin, unresolved, calculated>>

inputs == <<shotoku, kazeiyukamenseki, kyojujokyo, zeikin, unresolved>>

---------------------------------------------------------------------------
(* Bounds of the model *)

\* months modelled in a year (the first month is month 1)
NumMonths == 2

\* longest marginal scale (number of brackets)
MaxBrackets == 2

\* distinct (variable, entity, period) requests the host makes in one run
MaxRequests == 2

\* names that fail to resolve at once
MaxFailures == 2

\* one unit of value is Hundredths hundredths
Hundredths == 100

Persons == {"p1", "p2"}

Households == {"h1", "h2"}

Years == {2024}

Months == 1..NumMonths

\* a MONTH period is <<year, month>>; a YEAR period is the year
MonthPeriods == Years \X Months

---------------------------------------------------------------------------
(* The host engine's primitives the formulas call *)

\* 対象期間.first_month
first_month(taishokikan) == <<taishokikan, 1>>

\* numpy.maximum
max_(a, b) == IF a >= b THEN a ELSE b

min_(a, b) == IF a <= b THEN a ELSE b

\* the boolean vector of a comparison, as numpy adds it: True is 1
AsNumber(b) == IF b THEN 1 ELSE 0

\* the outcome of an evaluation: a value, or the error the host raised
Value(v) == [kind |-> "value", value |-> v]

Raise(name) == [kind |-> "error", error |-> name]

NotCalculated == [kind |-> "none"]

\* whether the host engine fails to resolve `name`
Fails(name) == name \in unresolved

\* the portion of `base` in bracket k of `scale`, times the bracket's rate;
\* the top bracket has no upper threshold
BracketAmount(scale, base, k) ==
    LET upper == IF k = Len(scale) THEN base
                 ELSE min_(base, scale[k + 1].threshold)
    IN  scale[k].rate * max_(upper - scale[k].threshold, 0)

RECURSIVE SumBrackets(_, _, _)
SumBrackets(scale, base, k) ==
    IF k > Len(scale) THEN 0
    ELSE BracketAmount(scale, base, k) + SumBrackets(scale, base, k + 1)

\* scale.calc(base): the host engine's marginal-scale evaluation
calc(scale, base) == SumBrackets(scale, base, 1)

---------------------------------------------------------------------------
(* The formulas *)

\* 所得税.formula: mutant reading the rate of the first month of the year
shotokuzei_formula_FirstMonthRate(taishojinbutsu, taishokikan) ==
    IF Fails("shotoku") THEN Raise("shotoku")
    ELSE IF Fails("zeikin.shotokuzeiritsu") THEN Raise("zeikin.shotokuzeiritsu")
    ELSE Value(shotoku[taishojinbutsu][taishokikan]
               * zeikin.shotokuzeiritsu[first_month(taishokikan[1])])

\* 所得税.formula
shotokuzei_formula(taishojinbutsu, taishokikan) ==
    IF Fails("shotoku") THEN Raise("shotoku")
    ELSE IF Fails("zeikin.shotokuzeiritsu") THEN Raise("zeikin.shotokuzeiritsu")
    ELSE Value(shotoku[taishojinbutsu][taishokikan]
               * zeikin.shotokuzeiritsu[taishokikan])

\* 社会保険料.formula: mutant copied from 所得税 (income times the flat rate)
shakaihokenryo_formula_FlatRate(taishojinbutsu, taishokikan) ==
    IF Fails("shotoku") THEN Raise("shotoku")
    ELSE IF Fails("zeikin.shakaihokenryo") THEN Raise("zeikin.shakaihokenryo")
    ELSE IF Fails("calc") THEN Raise("calc")
    ELSE Value(shotoku[taishojinbutsu][taishokikan]
               * zeikin.shotokuzeiritsu[taishokikan])

\* 社会保険料.formula: mutant taxing the whole income at the first bracket's rate
shakaihokenryo_formula_FirstRate(taishojinbutsu, taishokikan) ==
    IF Fails("shotoku") THEN Raise("shotoku")
    ELSE IF Fails("zeikin.shakaihokenryo") THEN Raise("zeikin.shakaihokenryo")
    ELSE IF Fails("calc") THEN Raise("calc")
    ELSE Value(shotoku[taishojinbutsu][taishokikan]
               * zeikin.shakaihokenryo[taishokikan][1].rate)

\* 社会保険料.formula: mutant taxing the whole income at the rate of the bracket
\* it reaches (an average-rate scale instead of a marginal one)
shakaihokenryo_formula_ReachedRate(taishojinbutsu, taishokikan) ==
    IF Fails("shotoku") THEN Raise("shotoku")
    ELSE IF Fails("zeikin.shakaihokenryo") THEN Raise("zeikin.shakaihokenryo")
    ELSE IF Fails("calc") THEN Raise("calc")
    ELSE LET scale   == zeikin.shakaihokenryo[taishokikan]
             base    == shotoku[taishojinbutsu][taishokikan]
             reached == {k \in 1..Len(scale) : scale[k].threshold <= base}
         IN  Value(IF reached = {} THEN 0
                   ELSE base * scale[CHOOSE k \in reached :
                                        \A j \in reached : j <= k].rate)

\* 社会保険料.formula
shakaihokenryo_formula(taishojinbutsu, taishokikan) ==
    IF Fails("shotoku") THEN Raise("shotoku")
    ELSE IF Fails("zeikin.shakaihokenryo") THEN Raise("zeikin.shakaihokenryo")
    ELSE IF Fails("calc") THEN Raise("calc")
    ELSE Value(calc(zeikin.shakaihokenryo[taishokikan],
                    shotoku[taishojinbutsu][taishokikan]))

\* (owner + 借家): mutant whose second check overlaps the first
Applicability_Overlapping(status) ==
    AsNumber(status = "owner") + AsNumber(status # "homeless")

\* (owner + 借家): the sum of the two occupancy checks
Applicability(status) ==
    AsNumber(status = "owner") + AsNumber(status = "shakuya")

\* tax_金額: mutant that forgets the minimal amount
tax_kingaku_NoFloor(area, tax_params) == area * tax_params.rate

\* tax_金額: mutant taking the smaller of the two amounts
tax_kingaku_Min(area, tax_params) ==
    min_(area * tax_params.rate, tax_params.minimal_kingaku * Hundredths)

\* tax_金額 = max_(課税床面積 * tax_params.rate, tax_params.minimal_金額)
tax_kingaku(area, tax_params) ==
    max_(area * tax_params.rate, tax_params.minimal_kingaku * Hundredths)

\* 固定資産税.formula: mutant reading the inputs at the last month of the year
koteishisanzei_formula_LastMonth(taishosetai, taishokikan) ==
    LET december == <<taishokikan, NumMonths>>
    IN  IF Fails("kazeiyukamenseki") THEN Raise("kazeiyukamenseki")
        ELSE IF Fails("zeikin.koteishisanzei") THEN Raise("zeikin.koteishisanzei")
        ELSE IF Fails("rate") THEN Raise("rate")
        ELSE IF Fails("minimal_kingaku") THEN Raise("minimal_kingaku")
        ELSE IF Fails("kyojujokyo") THEN Raise("kyojujokyo")
        ELSE IF Fails("HousingOccupancyStatus.shakuya")
             THEN Raise("HousingOccupancyStatus.shakuya")
        ELSE IF Fails("HousingOccupancyStatus.owner")
             THEN Raise("HousingOccupancyStatus.owner")
        ELSE Value(Applicability(kyojujokyo[taishosetai][december])
                   * tax_kingaku(kazeiyukamenseki[taishosetai][december],
                                 zeikin.koteishisanzei[taishokikan]))

\* 固定資産税.formula: mutant that checks the occupancy status first and returns
\* 0 for a household that neither owns nor rents, resolving nothing else
koteishisanzei_formula_StatusFirst(taishosetai, taishokikan) ==
    LET january == first_month(taishokikan)
    IN  IF Fails("kyojujokyo") THEN Raise("kyojujokyo")
        ELSE IF Fails("HousingOccupancyStatus.shakuya")
             THEN Raise("HousingOccupancyStatus.shakuya")
        ELSE IF Fails("HousingOccupancyStatus.owner")
             THEN Raise("HousingOccupancyStatus.owner")
        ELSE IF Applicability(kyojujokyo[taishosetai][january]) = 0 THEN Value(0)
        ELSE IF Fails("kazeiyukamenseki") THEN Raise("kazeiyukamenseki")
        ELSE IF Fails("zeikin.koteishisanzei") THEN Raise("zeikin.koteishisanzei")
        ELSE IF Fails("rate") THEN Raise("rate")
        ELSE IF Fails("minimal_kingaku") THEN Raise("minimal_kingaku")
        ELSE Value(Applicability(kyojujokyo[taishosetai][january])
                   * tax_kingaku(kazeiyukamenseki[taishosetai][january],
                                 zeikin.koteishisanzei[taishokikan]))

\* 固定資産税.formula
koteishisanzei_formula(taishosetai, taishokikan) ==
    LET january == first_month(taishokikan)
    IN  IF Fails("kazeiyukamenseki") THEN Raise("kazeiyukamenseki")
        ELSE IF Fails("zeikin.koteishisanzei") THEN Raise("zeikin.koteishisanzei")
        ELSE IF Fails("rate") THEN Raise("rate")
        ELSE IF Fails("minimal_kingaku") THEN Raise("minimal_kingaku")
        ELSE IF Fails("kyojujokyo") THEN Raise("kyojujokyo")
        ELSE IF Fails("HousingOccupancyStatus.shakuya")
             THEN Raise("HousingOccupancyStatus.shakuya")
        ELSE IF Fails("HousingOccupancyStatus.owner")
             THEN Raise("HousingOccupancyStatus.owner")
        ELSE Value(Applicability(kyojujokyo[taishosetai][january])
                   * tax_kingaku(kazeiyukamenseki[taishosetai][january],
                                 zeikin.koteishisanzei[taishokikan]))

---------------------------------------------------------------------------
(* The host engine requesting a variable for an entity and a period *)

Requested ==
    {<<"shotokuzei", k>> : k \in {k \in DOMAIN calculated.shotokuzei :
                                    calculated.shotokuzei[k] # NotCalculated}}
    \cup
    {<<"shakaihokenryo", k>> : k \in {k \in DOMAIN calculated.shakaihokenryo :
                                    calculated.shakaihokenryo[k] # NotCalculated}}
    \cup
    {<<"koteishisanzei", k>> : k \in {k \in DOMAIN calculated.koteishisanzei :
                                    calculated.koteishisanzei[k] # NotCalculated}}

CanRequest(variable, key) ==
    \/ calculated[variable][key] # NotCalculated
    \/ Cardinality(Requested) < MaxRequests

\* mutant: the evaluation consumes the income it read
Calc_shotokuzei_Consuming(p, period) ==
    /\ CanRequest("shotokuzei", <<p, period>>)
    /\ calculated' = [calculated EXCEPT
                        !.shotokuzei[<<p, period>>] = shotokuzei_formula(p, period)]
    /\ shotoku' = [shotoku EXCEPT ![p][period] = 0]
    /\ UNCHANGED <<kazeiyukamenseki, kyojujokyo, zeikin, unresolved>>

Calc_shotokuzei(p, period) ==
    /\ CanRequest("shotokuzei", <<p, period>>)
    /\ calculated' = [calculated EXCEPT
                        !.shotokuzei[<<p, period>>] = shotokuzei_formula(p, period)]
    /\ UNCHANGED inputs

Calc_shakaihokenryo(p, period) ==
    /\ CanRequest("shakaihokenryo", <<p, period>>)
    /\ calculated' = [calculated EXCEPT
                        !.shakaihokenryo[<<p, period>>] =
                            shakaihokenryo_formula(p, period)]
    /\ UNCHANGED inputs

Calc_koteishisanzei(h, year) ==
    /\ CanRequest("koteishisanzei", <<h, year>>)
    /\ calculated' = [calculated EXCEPT
                        !.koteishisanzei[<<h, year>>] =
                            koteishisanzei_formula(h, year)]
    /\ UNCHANGED inputs

---------------------------------------------------------------------------
(* The inputs the host engine holds when a run starts *)

AbsentResults ==
    [shotokuzei     |-> [k \in Persons \X MonthPeriods |-> NotCalculated],
     shakaihokenryo |-> [k \in Persons \X MonthPeriods |-> NotCalculated],
     koteishisanzei |-> [k \in Households \X Years |-> NotCalculated]]

\* the scale of the documentation's example: [(0, 0.1), (1000, 0.2)]
BaseScale ==
    <<[threshold |-> 0, rate |-> 10], [threshold |-> 1000, rate |-> 20]>>

\* rate 0.01, minimal amount 200
BaseTaxParams == [rate |-> 1, minimal_kingaku |-> 200]

BaseZeikin ==
    [shotokuzeiritsu |-> [t \in MonthPeriods |-> 10],
     shakaihokenryo  |-> [t \in MonthPeriods |-> BaseScale],
     koteishisanzei  |-> [y \in Years |-> BaseTaxParams]]

BaseShotoku == [p \in Persons |-> [t \in MonthPeriods |-> 500]]

BaseKazeiyukamenseki == [h \in Households |-> [t \in MonthPeriods |-> 10000]]

BaseKyojujokyo == [h \in Households |-> [t \in MonthPeriods |-> "owner"]]

\* the host-defined occupancy statuses (HousingOccupancyStatus)
Statuses == {"owner", "shakuya", "free_lodger", "homeless"}

IncomeValues == {-500, 0, 500, 1500}

ShotokuzeiritsuValues == {0, 10, 20}

ScaleIncomes == {-500, 0, 500, 1500, 2500}

ThresholdValues == {0, 1000, 2000}

ScaleRates == {-10, 0, 10, 20}

Brackets == [threshold : ThresholdValues, rate : ScaleRates]

\* the host keeps a scale's brackets in strictly ascending threshold order
Ascending(scale) ==
    \A k \in 1..(Len(scale) - 1) : scale[k].threshold < scale[k + 1].threshold

Scales ==
    {s \in UNION {[1..n -> Brackets] : n \in 1..MaxBrackets} : Ascending(s)}

AreaValues == {-100, 0, 10000, 50000}

TaxRateValues == {0, 1, 2}

MinimalValues == {0, 200}

HistoryAreas == {10000, 50000}

HistoryStatuses == {"owner", "shakuya", "homeless"}

\* every name a formula asks the host engine to resolve
FailurePoints ==
    {"shotoku", "zeikin.shotokuzeiritsu", "zeikin.shakaihokenryo", "calc",
     "kazeiyukamenseki", "zeikin.koteishisanzei", "rate", "minimal_kingaku",
     "kyojujokyo", "HousingOccupancyStatus.shakuya",
     "HousingOccupancyStatus.owner"}

\* 所得税: the incomes of p1 and the rate vary month by month
InitIncome ==
    /\ shotoku \in {[BaseShotoku EXCEPT !["p1"] = i] :
                        i \in [MonthPeriods -> IncomeValues]}
    /\ zeikin \in {[BaseZeikin EXCEPT !.shotokuzeiritsu = r] :
                        r \in [MonthPeriods -> ShotokuzeiritsuValues]}
    /\ kazeiyukamenseki = BaseKazeiyukamenseki
    /\ kyojujokyo = BaseKyojujokyo
    /\ unresolved = {}
    /\ calculated = AbsentResults

\* 社会保険料: the first month's incomes of both persons and its scale vary
InitContribution ==
    /\ shotoku \in {[p \in Persons |->
                        [t \in MonthPeriods |-> IF t[2] = 1 THEN i[p] ELSE 500]] :
                        i \in [Persons -> ScaleIncomes]}
    /\ zeikin \in {[BaseZeikin EXCEPT !.shakaihokenryo =
                        [t \in MonthPeriods |-> IF t[2] = 1 THEN s ELSE BaseScale]] :
                        s \in Scales}
    /\ kazeiyukamenseki = BaseKazeiyukamenseki
    /\ kyojujokyo = BaseKyojujokyo
    /\ unresolved = {}
    /\ calculated = AbsentResults

\* 固定資産税: h1's floor area and status vary month by month, and the parameters
InitProperty ==
    /\ kazeiyukamenseki \in {[BaseKazeiyukamenseki EXCEPT !["h1"] = a] :
                        a \in [MonthPeriods -> AreaValues]}
    /\ kyojujokyo \in {[BaseKyojujokyo EXCEPT !["h1"] = s] :
                        s \in [MonthPeriods -> Statuses]}
    /\ zeikin \in {[BaseZeikin EXCEPT !.koteishisanzei =
                        [y \in Years |-> [rate |-> r, minimal_kingaku |-> m]]] :
                        r \in TaxRateValues, m \in MinimalValues}
    /\ shotoku = BaseShotoku
    /\ unresolved = {}
    /\ calculated = AbsentResults

\* 固定資産税: the month-by-month histories of two households
InitHistory ==
    /\ kazeiyukamenseki \in [Households -> [MonthPeriods -> HistoryAreas]]
    /\ kyojujokyo \in [Households -> [MonthPeriods -> HistoryStatuses]]
    /\ zeikin = BaseZeikin
    /\ shotoku = BaseShotoku
    /\ unresolved = {}
    /\ calculated = AbsentResults

\* the host engine fails to resolve some names
InitErrors ==
    /\ unresolved \in {u \in SUBSET FailurePoints : Cardinality(u) <= MaxFailures}
    /\ kyojujokyo \in {[BaseKyojujokyo EXCEPT !["h1"] = [t \in MonthPeriods |-> s]] :
                        s \in Statuses}
    /\ kazeiyukamenseki = BaseKazeiyukamenseki
    /\ zeikin = BaseZeikin
    /\ shotoku = BaseShotoku
    /\ calculated = AbsentResults

\* all three rules over a few inputs each
Init ==
    /\ shotoku \in {[BaseShotoku EXCEPT !["p1"] = i] :
                        i \in [MonthPeriods -> {500, 1500}]}
    /\ zeikin \in {[BaseZeikin EXCEPT !.shotokuzeiritsu = r] :
                        r \in [MonthPeriods -> {10, 20}]}
    /\ kazeiyukamenseki \in {[BaseKazeiyukamenseki EXCEPT !["h1"] =
                        [t \in MonthPeriods |-> a]] : a \in HistoryAreas}
    /\ kyojujokyo \in {[BaseKyojujokyo EXCEPT !["h1"] =
                        [t \in MonthPeriods |-> s]] : s \in {"owner", "homeless"}}
    /\ unresolved \in {{}, {"zeikin.shakaihokenryo"}}
    /\ calculated = AbsentResults

---------------------------------------------------------------------------
(* Specifications *)

NextIncome == \E p \in Persons, t \in MonthPeriods : Calc_shotokuzei(p, t)

NextContribution == \E p \in Persons, t \in MonthPeriods : Calc_shakaihokenryo(p, t)

NextProperty == \E h \in Households, y \in Years : Calc_koteishisanzei(h, y)

Next ==
    \/ \E p \in Persons, t \in MonthPeriods : Calc_shotokuzei(p, t)
    \/ \E p \in Persons, t \in MonthPeriods : Calc_shakaihokenryo(p, t)
    \/ \E h \in Households, y \in Years : Calc_koteishisanzei(h, y)

Spec == Init /\ [][Next]_vars

SpecIncome == InitIncome /\ [][NextIncome]_vars

SpecContribution == InitContribution /\ [][NextContribution]_vars

SpecProperty == InitProperty /\ [][NextProperty]_vars

SpecHistory == InitHistory /\ [][NextProperty]_vars

SpecErrors == InitErrors /\ [][Next]_vars

---------------------------------------------------------------------------
(* 所得税 *)

IncomeTaxDone(p, t) == calculated.shotokuzei[<<p, t>>] # NotCalculated

\* C4: for every individual and month, the income tax is that month's income
\* multiplied by the rate valid for that month: exactly i * r for i >= 0 and
\* r >= 0 (1500 at rate 0.2 is 300), and a negative income gives a negative
\* tax, not one clamped to zero (-500 at rate 0.1 is -50).
C4_IncomeTaxIsIncomeTimesRate ==
    \A p \in Persons, t \in MonthPeriods :
        IncomeTaxDone(p, t) =>
            LET r    == calculated.shotokuzei[<<p, t>>]
                i    == shotoku[p][t]
                rate == zeikin.shotokuzeiritsu[t]
            IN  /\ r.kind = "value"
                /\ r.value = i * rate
                /\ (i = 1500 /\ rate = 20) => r.value = 300 * Hundredths
                /\ (i = -500 /\ rate = 10) => r.value = -(50 * Hundredths)
                /\ (i < 0 /\ rate > 0) => r.value < 0

\* a negative income taxed at a positive rate, in a month whose rate differs
\* from another month's
C4_Witness ==
    \E p \in Persons, t \in MonthPeriods, u \in MonthPeriods :
        /\ IncomeTaxDone(p, t)
        /\ shotoku[p][t] < 0
        /\ zeikin.shotokuzeiritsu[t] > 0
        /\ zeikin.shotokuzeiritsu[u] # zeikin.shotokuzeiritsu[t]
        /\ calculated.shotokuzei[<<p, t>>].value < 0

---------------------------------------------------------------------------
(* 社会保険料 *)

ContributionDone(p, t) == calculated.shakaihokenryo[<<p, t>>] # NotCalculated

Contribution(p, t) == calculated.shakaihokenryo[<<p, t>>].value

\* the brackets walked one by one: bracket k holds the income between its
\* threshold and the next bracket's, the top bracket all income above its own
RECURSIVE WalkBrackets(_, _, _)
WalkBrackets(scale, income, k) ==
    IF k > Len(scale) \/ income <= scale[k].threshold THEN 0
    ELSE IF k < Len(scale) /\ income > scale[k + 1].threshold
         THEN (scale[k + 1].threshold - scale[k].threshold) * scale[k].rate
              + WalkBrackets(scale, income, k + 1)
         ELSE (income - scale[k].threshold) * scale[k].rate

\* C5: for every individual and month, the contribution is the sum over the
\* brackets of the month's scale of the income in the bracket times the
\* bracket's rate, the top bracket covering all income above its threshold;
\* with [(0, 0.1), (1000, 0.2)] income 500 gives 50 and income 1500 gives 200.
C5_ContributionIsSumOverBrackets ==
    \A p \in Persons, t \in MonthPeriods :
        ContributionDone(p, t) =>
            LET scale == zeikin.shakaihokenryo[t]
                i     == shotoku[p][t]
            IN  /\ calculated.shakaihokenryo[<<p, t>>].kind = "value"
                /\ Contribution(p, t) = WalkBrackets(scale, i, 1)
                /\ (scale = BaseScale /\ i = 500) =>
                        Contribution(p, t) = 50 * Hundredths
                /\ (scale = BaseScale /\ i = 1500) =>
                        Contribution(p, t) = 200 * Hundredths

\* the documentation's example: 1500 under [(0, 0.1), (1000, 0.2)] is 200
C5_Witness ==
    \E p \in Persons, t \in MonthPeriods :
        /\ ContributionDone(p, t)
        /\ zeikin.shakaihokenryo[t] = BaseScale
        /\ shotoku[p][t] = 1500
        /\ Contribution(p, t) = 200 * Hundredths

NonNegativeRates(scale) == \A k \in 1..Len(scale) : scale[k].rate >= 0

---------------------------------------------------------------------------
(* 固定資産税 *)

PropertyTaxDone(h, y) == calculated.koteishisanzei[<<h, y>>] # NotCalculated

PropertyTax(h, y) == calculated.koteishisanzei[<<h, y>>].value

\* the inputs of the tax of year y: first-month area and status, yearly parameters
AreaOf(h, y) == kazeiyukamenseki[h][<<y, 1>>]

StatusOf(h, y) == kyojujokyo[h][<<y, 1>>]

RateOf(y) == zeikin.koteishisanzei[y].rate

MinimalOf(y) == zeikin.koteishisanzei[y].minimal_kingaku * Hundredths

Qualifying == {"owner", "shakuya"}

\* C1: the property tax is applicability * max(floor_area * rate,
\* minimal_amount), applicability being 1 for an owner or a renter and 0
\* otherwise; rate 0.01 and minimal amount 200 give 200 for an owner with
\* floor area 10000 and 500 for a renter with floor area 50000.
C1_PropertyTaxFormula ==
    \A h \in Households, y \in Years :
        PropertyTaxDone(h, y) =>
            LET candidate == AreaOf(h, y) * RateOf(y)
                larger    == IF candidate > MinimalOf(y) THEN candidate
                             ELSE MinimalOf(y)
                standard  == RateOf(y) = 1 /\ MinimalOf(y) = 200 * Hundredths
            IN  /\ calculated.koteishisanzei[<<h, y>>].kind = "value"
                /\ StatusOf(h, y) \in Qualifying => PropertyTax(h, y) = larger
                /\ StatusOf(h, y) \notin Qualifying => PropertyTax(h, y) = 0
                /\ (standard /\ StatusOf(h, y) = "owner" /\ AreaOf(h, y) = 10000)
                        => PropertyTax(h, y) = 200 * Hundredths
                /\ (standard /\ StatusOf(h, y) = "shakuya" /\ AreaOf(h, y) = 50000)
                        => PropertyTax(h, y) = 500 * Hundredths

\* the renter of the documentation's example: 50000 at rate 0.01 is 500
C1_Witness ==
    \E h \in Households, y \in Years :
        /\ PropertyTaxDone(h, y)
        /\ StatusOf(h, y) = "shakuya"
        /\ AreaOf(h, y) = 50000
        /\ RateOf(y) = 1
        /\ MinimalOf(y) = 200 * Hundredths
        /\ PropertyTax(h, y) = 500 * Hundredths

\* C2: the property tax is exactly zero for every household whose status is
\* neither owner nor rented, whatever the floor area, and at least the minimal
\* amount for an owner or a renter, for every floor area, zero and negative
\* ones included.
C2_ZeroOrAtLeastMinimal ==
    \A h \in Households, y \in Years :
        PropertyTaxDone(h, y) =>
            IF StatusOf(h, y) \in Qualifying
            THEN PropertyTax(h, y) >= MinimalOf(y)
            ELSE PropertyTax(h, y) = 0

\* an owner with a negative floor area pays the minimal amount, and a household
\* that neither owns nor rents pays nothing on a large floor area
C2_Witness ==
    \E h \in Households, y \in Years :
        /\ PropertyTaxDone(h, y)
        /\ MinimalOf(y) > 0
        /\ RateOf(y) > 0
        /\ \/ /\ StatusOf(h, y) = "owner"
              /\ AreaOf(h, y) < 0
              /\ PropertyTax(h, y) = MinimalOf(y)
           \/ /\ StatusOf(h, y) = "homeless"
              /\ AreaOf(h, y) = 50000
              /\ PropertyTax(h, y) = 0

\* C9: the applicability factor (status == owner) + (status == 借家) is 1 for
\* an owner or a renter and 0 for every other status of the host's domain,
\* never 2: a tax that was calculated is 0 or the tax amount counted once.
C9_ApplicabilityIsZeroOrOne ==
    /\ \A h \in Households, t \in MonthPeriods :
            /\ kyojujokyo[h][t] \in Statuses
            /\ Applicability(kyojujokyo[h][t]) \in {0, 1}
            /\ Applicability(kyojujokyo[h][t]) = 1 <=> kyojujokyo[h][t] \in Qualifying
    /\ \A h \in Households, y \in Years :
            PropertyTaxDone(h, y) =>
                \/ PropertyTax(h, y) = 0
                \/ /\ PropertyTax(h, y) >= AreaOf(h, y) * RateOf(y)
                   /\ PropertyTax(h, y) >= MinimalOf(y)
                   /\ PropertyTax(h, y) \in {AreaOf(h, y) * RateOf(y), MinimalOf(y)}

\* an owner and a renter both taxed, each once
C9_Witness ==
    \E h \in Households, g \in Households, y \in Years :
        /\ PropertyTaxDone(h, y)
        /\ PropertyTaxDone(g, y)
        /\ StatusOf(h, y) = "owner"
        /\ StatusOf(g, y) = "shakuya"
        /\ PropertyTax(h, y) > 0
        /\ PropertyTax(g, y) > 0

\* C3: the property tax of a year reads the floor area and the status at the
\* first month of the year only: two households whose histories agree on both
\* in the first month have the same tax for the year, however the histories
\* differ in the other months.
C3_OnlyFirstMonthIsRead ==
    \A h \in Households, g \in Households, y \in Years :
        (/\ PropertyTaxDone(h, y)
         /\ PropertyTaxDone(g, y)
         /\ kazeiyukamenseki[h][first_month(y)] = kazeiyukamenseki[g][first_month(y)]
         /\ kyojujokyo[h][first_month(y)] = kyojujokyo[g][first_month(y)])
            => calculated.koteishisanzei[<<h, y>>] = calculated.koteishisanzei[<<g, y>>]

\* two taxed households that agree in the first month and differ, in area and
\* in status, in a later month
C3_Witness ==
    \E h \in Households, g \in Households, y \in Years, t \in MonthPeriods :
        /\ t # first_month(y)
        /\ PropertyTaxDone(h, y)
        /\ PropertyTaxDone(g, y)
        /\ kazeiyukamenseki[h][first_month(y)] = kazeiyukamenseki[g][first_month(y)]
        /\ kyojujokyo[h][first_month(y)] = kyojujokyo[g][first_month(y)]
        /\ kazeiyukamenseki[h][t] # kazeiyukamenseki[g][t]
        /\ kyojujokyo[h][t] = "owner"
        /\ kyojujokyo[g][t] = "homeless"
        /\ PropertyTax(h, y) = PropertyTax(g, y)
        /\ PropertyTax(h, y) > 0

---------------------------------------------------------------------------
(* The rules as pure functions *)

\* C8: each rule is a deterministic pure function of its inputs and of the
\* parameters at its period: no evaluation changes the entity data or the
\* parameter tree, and once a rule has a result for an entity and a period,
\* evaluating it again, after any evaluations of any rule, gives that result.
C8_EvaluationIsPure ==
    [][/\ inputs' = inputs
       /\ \A k \in DOMAIN calculated.shotokuzei :
            calculated.shotokuzei[k] # NotCalculated
                => calculated.shotokuzei'[k] = calculated.shotokuzei[k]
       /\ \A k \in DOMAIN calculated.shakaihokenryo :
            calculated.shakaihokenryo[k] # NotCalculated
                => calculated.shakaihokenryo'[k] = calculated.shakaihokenryo[k]
       /\ \A k \in DOMAIN calculated.koteishisanzei :
            calculated.koteishisanzei[k] # NotCalculated
                => calculated.koteishisanzei'[k] = calculated.koteishisanzei[k]]_vars

\* an income tax and a property tax both calculated in one run, with values
C8_Witness ==
    \E p \in Persons, t \in MonthPeriods, h \in Households, y \in Years :
        /\ IncomeTaxDone(p, t)
        /\ PropertyTaxDone(h, y)
        /\ calculated.shotokuzei[<<p, t>>].kind = "value"
        /\ calculated.shotokuzei[<<p, t>>].value > 0
        /\ PropertyTax(h, y) > 0

---------------------------------------------------------------------------
(* Failures of the host engine *)

\* what each formula asks the host engine to resolve, in the order it asks
Resolves_shotokuzei == <<"shotoku", "zeikin.shotokuzeiritsu">>

Resolves_shakaihokenryo == <<"shotoku", "zeikin.shakaihokenryo", "calc">>

Resolves_koteishisanzei ==
    <<"kazeiyukamenseki", "zeikin.koteishisanzei", "rate", "minimal_kingaku",
      "kyojujokyo", "HousingOccupancyStatus.shakuya", "HousingOccupancyStatus.owner">>

\* a result is the error of the first resolution that fails, a value if none does
Propagates(result, order) ==
    LET failing == {k \in 1..Len(order) : order[k] \in unresolved}
    IN  IF failing = {} THEN result.kind = "value"
        ELSE result = Raise(order[CHOOSE k \in failing : \A j \in failing : k <= j])

\* C10: no rule catches or translates a failure of the host engine: when the
\* resolution of any input of a rule fails, the evaluation ends with that error
\* and no value; the property tax of a household that neither owns nor rents
\* is an error, not 0, when its floor area or the tax parameters do not resolve.
C10_ErrorsPropagate ==
    /\ \A k \in DOMAIN calculated.shotokuzei :
            calculated.shotokuzei[k] # NotCalculated
                => Propagates(calculated.shotokuzei[k], Resolves_shotokuzei)
    /\ \A k \in DOMAIN calculated.shakaihokenryo :
            calculated.shakaihokenryo[k] # NotCalculated
                => Propagates(calculated.shakaihokenryo[k], Resolves_shakaihokenryo)
    /\ \A k \in DOMAIN calculated.koteishisanzei :
            calculated.koteishisanzei[k] # NotCalculated
                => Propagates(calculated.koteishisanzei[k], Resolves_koteishisanzei)
    /\ \A h \in Households, y \in Years :
            (/\ PropertyTaxDone(h, y)
             /\ StatusOf(h, y) \notin Qualifying
             /\ unresolved \cap {"kazeiyukamenseki", "zeikin.koteishisanzei",
                                 "rate", "minimal_kingaku"} # {})
                => calculated.koteishisanzei[<<h, y>>].kind = "error"

\* the tax of a household that neither owns nor rents ends with the error of
\* the rate, which does not resolve
C10_Witness ==
    \E h \in Households, y \in Years :
        /\ PropertyTaxDone(h, y)
        /\ StatusOf(h, y) = "homeless"
        /\ unresolved = {"rate", "HousingOccupancyStatus.owner"}
        /\ calculated.koteishisanzei[<<h, y>>] = Raise("rate")

====
